---- MODULE Spec2Model ----
(***************************************************************************)
(* Model of the devSnippets backend: the snippet table (database.py), the  *)
(* TF-IDF search service (search.py), the Weaviate adapter                 *)
(* (weaviate_service.py), the HTTP routes (routes/snippets.py) and the     *)
(* migration script (migrate_to_weaviate.py).                              *)
(*                                                                         *)
(* A Python str is modelled as the sequence of word tokens the             *)
(* vectorizer's tokenizer finds in it; joining fields with spaces in an    *)
(* f-string is concatenation of those sequences.  Scores are fixed-point   *)
(* integers in hundredths (0.30 is 30).                                    *)
(***************************************************************************)
EXTENDS Integers, Sequences, FiniteSets, TLC

VARIABLES
    db,        \* the snippets table: id -> row
    nextId,    \* the next value of the table's id sequence
    last,      \* the outcome of the last route, script or adapter operation
    index,     \* the CodeSnippet objects held by the external index
    nextUuid,  \* the uuid the index gives the next object it creates
    rank,      \* a direct call of search_snippets: its arguments and result
    vectorizer,\* search_service: self.fitted and the texts self.vectorizer was last fit on
    threads,   \* concurrent calls of search_snippets: arguments, position, result
    schema,    \* the classes of the external index
    boot,      \* the runs of _create_schema: position and outcome
    embedded   \* what create_snippet_embedding has returned so far, per input

vars ==
    <<db, nextId, last, index, nextUuid, rank, vectorizer, threads, schema, boot,
      embedded>>

(***************************************************************************)
(* Bounds of the model.                                                    *)
(***************************************************************************)
\* rows ever inserted into the snippets table
MaxId == 2
\* objects ever created in the external index
MaxObjects == 3
\* length of the candidate sequence handed to search_snippets
MaxCandidates == 3
\* largest limit tried; limits range over -MaxLimit .. MaxLimit
MaxLimit == 3

(***************************************************************************)
(* Python values.                                                          *)
(***************************************************************************)
\* None, where a str is expected (Optional[str])
None == <<"<None>">>
\* None, where an embedding (List[float]) is expected
NoneVec == << <<0, 0>> >>

\* x or "" (routes/snippets.py:33, search.py:72)
OrEmpty(x) == IF x = None THEN <<>> ELSE x

\* str(x) as an f-string formats it: None prints as the word None
Str(x) == IF x = None THEN <<"None">> ELSE x

Range(s) == {s[i] : i \in 1..Len(s)}

RECURSIVE SumSeq(_)
SumSeq(s) == IF s = <<>> THEN 0 ELSE Head(s) + SumSeq(Tail(s))

Min(a, b) == IF a <= b THEN a ELSE b
Max(a, b) == IF a >= b THEN a ELSE b

\* Python's seq[:n]: the first n items, and for n < 0 all but the last -n
SliceTo(s, n) ==
    IF n >= 0 THEN SubSeq(s, 1, Min(n, Len(s)))
    ELSE SubSeq(s, 1, Max(Len(s) + n, 0))

(***************************************************************************)
(* The tokenizer and the throwaway single-document vectorizer of           *)
(* create_embedding.                                                       *)
(***************************************************************************)
\* the words of the model in the vectorizer's (alphabetical) vocabulary order
WordOrder == <<"list", "none", "py", "sort", "the">>

\* stop_words='english', restricted to the words of the model
StopWords == {"the"}

\* lowercase=True, the vectorizer's default
Lower(w) == IF w = "None" THEN "none" ELSE w

\* the analyzer's unigrams: lowercased tokens that are not stop words
Tokens(text) ==
    LET low == [i \in 1..Len(text) |-> Lower(text[i])]
        Keep(w) == w \notin StopWords
    IN SelectSeq(low, Keep)

Count(w, toks) == Cardinality({i \in 1..Len(toks) : toks[i] = w})

(***************************************************************************)
(* The shared vectorizer of SemanticSearchService.__init__ and the joint   *)
(* fit of search_snippets.  TfidfVectorizer(stop_words='english',          *)
(* ngram_range=(1, 2), min_df=1, max_df=0.95), smooth idf, L2 norm.        *)
(***************************************************************************)
\* ngram_range=(1, 2): the unigrams and the bigrams of the kept tokens
TermsOf(text) ==
    LET t == Tokens(text)
    IN [i \in 1..Len(t) |-> <<t[i]>>] \o [i \in 1..Max(Len(t) - 1, 0) |-> <<t[i], t[i + 1]>>]

\* document frequency of a term in the fitted texts
DocFreq(term, texts) == Cardinality({d \in 1..Len(texts) : term \in Range(TermsOf(texts[d]))})

\* max_df=0.95 and min_df=1: a term is kept when min_df <= df <= 0.95 * n_docs
KeptTerms(texts) ==
    {term \in UNION {Range(TermsOf(texts[d])) : d \in 1..Len(texts)} :
        /\ DocFreq(term, texts) >= 1
        /\ 100 * DocFreq(term, texts) <= 95 * Len(texts)}

\* fit_transform raises ValueError: empty vocabulary, max_df below min_df, or
\* no term left after pruning
fit_transform_raises(texts) ==
    \/ \A d \in 1..Len(texts) : TermsOf(texts[d]) = <<>>
    \/ 95 * Len(texts) < 100
    \/ KeptTerms(texts) = {}

\* smooth idf, 10 * (ln((1 + n) / (1 + df)) + 1) rounded, row n, column df
IdfTable ==
    << <<10>>,
       <<14, 10>>,
       <<17, 13, 10>>,
       <<19, 15, 12, 10>>,
       <<21, 17, 14, 12, 10>>,
       <<23, 18, 16, 13, 12, 10>> >>

\* tf * idf of a term in one text of the fit (before normalisation)
Weight(term, d, texts) ==
    Count(term, TermsOf(texts[d])) * IdfTable[Len(texts)][DocFreq(term, texts)]

RECURSIVE SumOver(_, _, _, _)
\* the sum over the terms of S of the products of their weights in texts a and b
SumOver(S, a, b, texts) ==
    IF S = {} THEN 0
    ELSE LET term == CHOOSE x \in S : TRUE
         IN Weight(term, a, texts) * Weight(term, b, texts)
              + SumOver(S \ {term}, a, b, texts)

RECURSIVE ISqrtFrom(_, _)
ISqrtFrom(x, r) == IF (r + 1) * (r + 1) > x THEN r ELSE ISqrtFrom(x, r + 1)

\* cosine_similarity of rows a and b of the tf-idf matrix, in hundredths; a
\* row of norm zero has similarity 0 with every row
CosineSimilarity(a, b, texts) ==
    LET kept == KeptTerms(texts)
        na == ISqrtFrom(SumOver(kept, a, a, texts), 0)
        nb == ISqrtFrom(SumOver(kept, b, b, texts), 0)
    IN IF na = 0 \/ nb = 0 THEN 0
       ELSE (100 * SumOver(kept, a, b, texts)) \div (na * nb)

RECURSIVE WordRank(_, _)
\* the position of a word in the alphabetical order
WordRank(w, k) == IF WordOrder[k] = w THEN k ELSE WordRank(w, k + 1)

\* s < t for two terms as the strings "w1" or "w1 w2"
TermLess(s, t) ==
    \/ WordRank(s[1], 1) < WordRank(t[1], 1)
    \/ s[1] = t[1] /\ Len(s) < Len(t)
    \/ s[1] = t[1] /\ Len(s) = 2 /\ Len(t) = 2 /\ WordRank(s[2], 1) < WordRank(t[2], 1)

RECURSIVE SortTerms(_)
SortTerms(S) ==
    IF S = {} THEN <<>>
    ELSE LET m == CHOOSE x \in S : \A y \in S \ {x} : TermLess(x, y)
         IN <<m>> \o SortTerms(S \ {m})

\* vocabulary_: the kept terms of a fit in column (alphabetical) order
SortedTerms(texts) == SortTerms(KeptTerms(texts))

\* idf_ of a fit, one value per column
IdfVector(texts) ==
    LET cols == SortedTerms(texts)
    IN [k \in 1..Len(cols) |-> IdfTable[Len(texts)][DocFreq(cols[k], texts)]]

\* search_service after __init__: self.fitted, and the texts the vocabulary_
\* and the idf_ of self.vectorizer were learned from (none yet)
NewVectorizer == [fitted |-> FALSE, vocabulary |-> <<>>, idf |-> <<>>]

\* a fit that also records that the service has been fitted
AfterFitSetsFitted(v, texts) == [fitted |-> TRUE, vocabulary |-> texts, idf |-> texts]

\* self.vectorizer.fit_transform(all_texts) at line 84 learns vocabulary_ and
\* idf_ from all_texts; nothing in search_snippets assigns self.fitted
AfterFit(v, texts) == [v EXCEPT !.vocabulary = texts, !.idf = texts]

\* self.vectorizer.transform([text]) of line 31 raises NotFittedError on a
\* vectorizer that was never fit and ValueError when idf_ has another length
\* than vocabulary_
transform_raises(v, text) ==
    \/ v.vocabulary = <<>>
    \/ Len(SortedTerms(v.vocabulary)) # Len(SortedTerms(v.idf))

\* self.vectorizer.transform([text]): the counts of the text over
\* vocabulary_, weighted by idf_ and L2-normalised; a row of norm zero stays zero
transform(v, text) ==
    LET cols == SortedTerms(v.vocabulary)
        idf == IdfVector(v.idf)
        w == [k \in 1..Len(cols) |-> Count(cols[k], TermsOf(text)) * idf[k]]
        normsq == SumSeq([k \in 1..Len(w) |-> w[k] * w[k]])
    IN [k \in 1..Len(w) |-> <<w[k], IF normsq = 0 THEN 1 ELSE normsq>>]

\* create_embedding raises when the throwaway fit_transform finds no token
\* (ValueError: empty vocabulary) or when the fitted branch's transform raises
create_embedding_raises(text) ==
    IF ~vectorizer.fitted THEN Tokens(text) = <<>>
    ELSE transform_raises(vectorizer, text)

\* create_embedding: with self.fitted false, the L2-normalised count vector
\* over the sorted vocabulary of the one text, from a throwaway vectorizer;
\* with self.fitted true, the transform of the shared vectorizer.
\* A component count/sqrt(normsq) is kept exactly, as the pair <<count, normsq>>.
create_embedding(text) ==
    IF ~vectorizer.fitted
    THEN LET toks == Tokens(text)
             InText(w) == w \in Range(toks)
             vocab == SelectSeq(WordOrder, InText)
             counts == [i \in 1..Len(vocab) |-> Count(vocab[i], toks)]
             normsq == SumSeq([i \in 1..Len(counts) |-> counts[i] * counts[i]])
         IN [i \in 1..Len(counts) |-> <<counts[i], normsq>>]
    ELSE transform(vectorizer, text)

\* combined_text = f"{title} {description} {language} {code}"
CombinedText(title, description, code, language) ==
    Str(title) \o Str(description) \o Str(language) \o Str(code)

create_snippet_embedding_raises(title, description, code, language) ==
    create_embedding_raises(CombinedText(title, description, code, language))

create_snippet_embedding(title, description, code, language) ==
    create_embedding(CombinedText(title, description, code, language))

(***************************************************************************)
(* The snippets table and the request payloads.                            *)
(***************************************************************************)
Titles == {<<"the">>, <<"sort">>}
Descriptions == {None, <<"list">>}
Codes == {<<"the">>, <<"sort">>}
Languages == {<<"the">>, <<"py">>}

\* SnippetCreate: title, code and language are required str, tags defaults to []
CreatePayloads ==
    [title : Titles, description : Descriptions, code : Codes,
     language : Languages, tags : {<<>>}]

ContentFields == {"title", "description", "code", "language"}

\* SnippetUpdate.dict(exclude_unset=True): the fields the request set, where
\* title, code and language may be set to null
UpdateValues(f) ==
    CASE f = "title" -> {<<"sort">>, None}
      [] f = "description" -> {None, <<"list">>}
      [] f = "code" -> {<<"sort">>}
      [] f = "language" -> {<<"py">>}
      [] f = "tags" -> {<<"t">>}

UpdateFieldSets == {F \in SUBSET (ContentFields \cup {"tags"}) : Cardinality(F) <= 2}

\* setattr(snippet, field, value) for every field of update_data
SetAttrs(row, u) ==
    [f \in DOMAIN row |-> IF f \in DOMAIN u THEN u[f] ELSE row[f]]

\* the columns declared nullable=False
NotNullViolated(row) ==
    row.title = None \/ row.code = None \/ row.language = None

\* a content-field list that forgets language
EmbeddingFieldsNoLanguage == {"title", "description", "code"}

\* the fields whose presence in update_data recreates the embedding
EmbeddingFields == {"title", "description", "code", "language"}

NoResponse == [snippets |-> <<>>, total_count |-> 0]

\* what the last operation did: the HTTP status and exception of a route, the
\* ranker calls it entered, and for an adapter operation its return value,
\* whether a call to the external index failed and whether the index changed
Outcome(op, id, status, error) ==
    [op |-> op, id |-> id, status |-> status, error |-> error,
     recomputed |-> FALSE, calls |-> <<>>, response |-> NoResponse,
     returned |-> FALSE, hits |-> <<>>, failed |-> FALSE, changed |-> FALSE,
     limit |-> 0]

(***************************************************************************)
(* POST /snippets                                                          *)
(***************************************************************************)
create_snippet(p) ==
    /\ nextId <= MaxId
    /\ IF create_snippet_embedding_raises(p.title, OrEmpty(p.description), p.code, p.language)
       THEN /\ last' = Outcome("create_snippet", 0, 500, "ValueError")
            /\ UNCHANGED <<db, nextId>>
       ELSE /\ db' = [i \in DOMAIN db \cup {nextId} |->
                        IF i = nextId
                        THEN [title |-> p.title, description |-> p.description,
                              code |-> p.code, language |-> p.language, tags |-> p.tags,
                              embedding |-> create_snippet_embedding(
                                  p.title, OrEmpty(p.description), p.code, p.language)]
                        ELSE db[i]]
            /\ nextId' = nextId + 1
            /\ last' = Outcome("create_snippet", nextId, 201, "")
    /\ UNCHANGED <<index, nextUuid, rank, vectorizer, threads, schema, boot, embedded>>

(***************************************************************************)
(* PUT /snippets/{snippet_id}                                              *)
(***************************************************************************)
update_snippet(id, u) ==
    /\ IF id \notin DOMAIN db
       THEN /\ last' = Outcome("update_snippet", id, 404, "")
            /\ UNCHANGED db
       ELSE LET set == SetAttrs(db[id], u)
                recreate == DOMAIN u \cap EmbeddingFields # {}
                raises == recreate /\ create_snippet_embedding_raises(
                              set.title, OrEmpty(set.description), set.code, set.language)
                row == IF recreate
                       THEN [set EXCEPT !.embedding = create_snippet_embedding(
                                set.title, OrEmpty(set.description), set.code, set.language)]
                       ELSE set
            IN CASE raises ->
                      /\ last' = Outcome("update_snippet", id, 500, "ValueError")
                      /\ UNCHANGED db
                 [] ~raises /\ NotNullViolated(row) ->
                      /\ last' = Outcome("update_snippet", id, 500, "IntegrityError")
                      /\ UNCHANGED db
                 [] OTHER ->
                      /\ db' = [db EXCEPT ![id] = row]
                      /\ last' = [Outcome("update_snippet", id, 200, "")
                                    EXCEPT !.recomputed = recreate]
    /\ UNCHANGED <<nextId, index, nextUuid, rank, vectorizer, threads, schema, boot, embedded>>

(***************************************************************************)
(* DELETE /snippets/{snippet_id}                                           *)
(***************************************************************************)
delete_snippet(id) ==
    /\ IF id \notin DOMAIN db
       THEN /\ last' = Outcome("delete_snippet", id, 404, "")
            /\ UNCHANGED db
       ELSE /\ db' = [i \in DOMAIN db \ {id} |-> db[i]]
            /\ last' = Outcome("delete_snippet", id, 204, "")
    /\ UNCHANGED <<nextId, index, nextUuid, rank, vectorizer, threads, schema, boot, embedded>>

(***************************************************************************)
(* SemanticSearchService.search_snippets                                   *)
(***************************************************************************)
\* a candidate whose snippet is None
NoneSnippet ==
    [id |-> 0, title |-> None, description |-> None, code |-> None, language |-> None]

\* truthiness of the snippet of a pair
Truthy(snippet) == snippet # NoneSnippet

RECURSIVE SortAscending(_)
SortAscending(s) ==
    IF s = <<>> THEN <<>>
    ELSE LET x == s[Len(s)]
             rest == SortAscending(SubSeq(s, 1, Len(s) - 1))
             Before(r) == r.score <= x.score
             After(r) == r.score > x.score
         IN SelectSeq(rest, Before) \o <<x>> \o SelectSeq(rest, After)

\* an ascending sort that is then reversed: descending, but ties come out in
\* the reverse of the input order
SortThenReverse(s) ==
    LET a == SortAscending(s)
    IN [i \in 1..Len(a) |-> a[Len(a) + 1 - i]]

\* results.sort(key=lambda x: x[1], reverse=True): stable, descending
RECURSIVE SortDesc(_)
SortDesc(s) ==
    IF s = <<>> THEN <<>>
    ELSE LET x == s[Len(s)]
             rest == SortDesc(SubSeq(s, 1, Len(s) - 1))
             Before(r) == r.score >= x.score
             After(r) == r.score < x.score
         IN SelectSeq(rest, Before) \o <<x>> \o SelectSeq(rest, After)

\* the texts fitted at line 84: one per truthy snippet, then the query
SnippetText(snippet) ==
    Str(snippet.title) \o Str(OrEmpty(snippet.description))
        \o Str(snippet.language) \o Str(snippet.code)

SnippetObjects(S) ==
    LET pairs == SelectSeq(S, LAMBDA pr : Truthy(pr.snippet))
    IN [i \in 1..Len(pairs) |-> pairs[i].snippet]

AllTexts(query, S) ==
    LET objs == SnippetObjects(S)
    IN [i \in 1..Len(objs) |-> SnippetText(objs[i])] \o <<query>>

\* whether the call takes the except branch of line 103
search_snippets_raises(query, S) ==
    /\ S # <<>>
    /\ SnippetObjects(S) # <<>>
    /\ fit_transform_raises(AllTexts(query, S))

\* the exception fallback of line 106
Fallback(S, limit) ==
    LET head == SliceTo(S, limit)
    IN [i \in 1..Len(head) |-> [snippet |-> head[i].snippet, score |-> 0]]

search_snippets(query, S, limit) ==
    IF S = <<>> THEN <<>>
    ELSE LET objs == SnippetObjects(S)
             texts == AllTexts(query, S)
             results == [i \in 1..Len(objs) |->
                            [snippet |-> objs[i],
                             score |-> CosineSimilarity(Len(texts), i, texts)]]
         IN IF objs = <<>> THEN <<>>
            ELSE IF fit_transform_raises(texts) THEN Fallback(S, limit)
            ELSE SliceTo(SortDesc(results), limit)

(***************************************************************************)
(* POST /search                                                            *)
(***************************************************************************)
RECURSIVE SortedIds(_)
\* the ids of a set of rows in ascending order (the order the table returns them)
SortedIds(ids) ==
    IF ids = {} THEN <<>>
    ELSE LET m == CHOOSE x \in ids : \A y \in ids : x <= y
         IN <<m>> \o SortedIds(ids \ {m})

\* the ORM object of a row
SnippetObject(id, row) ==
    [id |-> id, title |-> row.title, description |-> row.description,
     code |-> row.code, language |-> row.language]

\* the parameters search_snippets declares (search.py:58)
search_snippets_params == {"query", "snippets_with_embeddings", "limit"}

\* the keyword arguments of the two calls the route makes (lines 140-145, 156-161)
RouteKwargs == {"query", "snippets_with_embeddings", "limit", "threshold"}

\* Python raises TypeError for a keyword argument the callee does not declare
CallRaisesTypeError(kwargs) == ~(kwargs \subseteq search_snippets_params)

\* threshold=0.30 of the first call and threshold=0.20 of the retry, in hundredths
PrimaryThreshold == 30
FallbackThreshold == 20

\* rows whose embedding is None get one generated (lines 116-126)
MissingEmbedding(rows) == {i \in DOMAIN rows : rows[i].embedding = NoneVec}

GenerationRaises(rows) ==
    \E i \in MissingEmbedding(rows) :
        create_snippet_embedding_raises(
            rows[i].title, OrEmpty(rows[i].description), rows[i].code, rows[i].language)

WithEmbeddings(rows) ==
    [i \in DOMAIN rows |->
        IF i \in MissingEmbedding(rows)
        THEN [rows[i] EXCEPT !.embedding = create_snippet_embedding(
                 rows[i].title, OrEmpty(rows[i].description), rows[i].code, rows[i].language)]
        ELSE rows[i]]

\* snippets_with_embeddings: the rows whose embedding is truthy (lines 132-136)
Pool(rows) ==
    LET ids == SortedIds({i \in DOMAIN rows :
                    rows[i].embedding # NoneVec /\ rows[i].embedding # <<>>})
    IN [k \in 1..Len(ids) |->
          [snippet |-> SnippetObject(ids[k], rows[ids[k]]),
           embedding |-> rows[ids[k]].embedding]]

\* SearchResponse(snippets=..., total_count=len(result_snippets), ...)
Response(results) ==
    [snippets |-> [i \in 1..Len(results) |-> <<results[i].snippet.id, results[i].score>>],
     total_count |-> Len(results)]

search_snippets_route(query, limit) ==
    /\ IF DOMAIN db = {}
       THEN /\ last' = Outcome("search", 0, 200, "")
            /\ UNCHANGED db
       ELSE IF GenerationRaises(db)
       THEN /\ last' = Outcome("search", 0, 500, "ValueError")
            /\ UNCHANGED db
       ELSE LET rows == WithEmbeddings(db)
                pool == Pool(rows)
                first == search_snippets(query, pool, limit)
                retry == first = <<>> /\ Len(pool) > 0
                second == search_snippets(query, pool, limit)
            IN /\ db' = rows
               /\ CASE CallRaisesTypeError(RouteKwargs) ->
                         last' = Outcome("search", 0, 500, "TypeError")
                    [] ~CallRaisesTypeError(RouteKwargs) /\ ~retry ->
                         last' = [Outcome("search", 0, 200, "")
                                    EXCEPT !.calls = <<PrimaryThreshold>>,
                                           !.response = Response(first)]
                    [] OTHER ->
                         last' = [Outcome("search", 0, 200, "")
                                    EXCEPT !.calls = <<PrimaryThreshold, FallbackThreshold>>,
                                           !.response = Response(second)]
    /\ UNCHANGED <<nextId, index, nextUuid, rank, vectorizer, threads, schema, boot, embedded>>

(***************************************************************************)
(* Direct calls of search_service.search_snippets with arbitrary           *)
(* arguments.                                                              *)
(***************************************************************************)
Queries == {<<"sort">>, <<"the">>, <<"list", "py">>}

NoFields == [title |-> None, description |-> None, code |-> None, language |-> None]

RankTexts ==
    {[title |-> <<"sort">>, description |-> None, code |-> <<"list">>, language |-> <<"py">>],
     [title |-> <<"sort">>, description |-> None, code |-> <<"sort">>, language |-> <<"the">>],
     [title |-> <<"list">>, description |-> None, code |-> <<"the">>, language |-> <<"the">>],
     [title |-> <<"the">>, description |-> None, code |-> <<"the">>, language |-> <<"the">>]}

\* the pair at position i of a candidate sequence: None, or the snippet with
\* id i and the embedding stored for it (None when none could be computed)
CandidatePair(i, c) ==
    IF c = NoFields THEN [snippet |-> NoneSnippet, embedding |-> NoneVec]
    ELSE [snippet |-> [id |-> i, title |-> c.title, description |-> c.description,
                       code |-> c.code, language |-> c.language],
          embedding |->
              IF create_snippet_embedding_raises(c.title, OrEmpty(c.description), c.code, c.language)
              THEN NoneVec
              ELSE create_snippet_embedding(c.title, OrEmpty(c.description), c.code, c.language)]

CandidateSeqs ==
    UNION {{[i \in 1..n |-> CandidatePair(i, f[i])] :
                f \in [1..n -> RankTexts \cup {NoFields}]} : n \in 0..MaxCandidates}

Limits == (0 - MaxLimit)..MaxLimit

\* self.vectorizer after a whole call: refit at line 84 unless the call
\* returned early (lines 62-63, 76-77) or the fit raised
AfterSearch(v, query, S) ==
    IF S = <<>> \/ SnippetObjects(S) = <<>> \/ fit_transform_raises(AllTexts(query, S))
    THEN v
    ELSE AfterFit(v, AllTexts(query, S))

\* one call of search_snippets on the arguments drawn for it
call_search_snippets ==
    /\ ~rank.called
    /\ rank' = [rank EXCEPT
                  !.called = TRUE,
                  !.raised = search_snippets_raises(rank.query, rank.candidates),
                  !.result = search_snippets(rank.query, rank.candidates, rank.limit)]
    /\ vectorizer' = AfterSearch(vectorizer, rank.query, rank.candidates)
    /\ UNCHANGED <<db, nextId, last, index, nextUuid, threads, schema, boot, embedded>>

(***************************************************************************)
(* Calls of search_service.search_snippets from several threads.  The      *)
(* method takes no lock and every call uses the one self.vectorizer of the *)
(* global search_service, so the steps fit_transform is made of            *)
(* (learn vocabulary_ and count, learn idf_, weight the counts by idf_)    *)
(* interleave between the calls.                                           *)
(***************************************************************************)
\* threads calling search_snippets at the same time
MaxThreads == 2
\* candidates of one concurrent call
MaxThreadCandidates == 2

\* the candidate sequences of these calls: one snippet or more, none None
ThreadCandidates ==
    UNION {{[i \in 1..n |-> CandidatePair(i, f[i])] : f \in [1..n -> RankTexts]} :
              n \in 1..MaxThreadCandidates}

\* a call that has not started: its arguments, its position and its result
ThreadCalls ==
    [query : {<<"sort">>, <<"list", "py">>},
     candidates : ThreadCandidates,
     limit : {MaxLimit},
     pc : {"start"},
     result : {<<>>}]

\* cosine_similarity of rows a and b of the matrix that weights the counts
\* of the texts by the idf_ found on the shared vectorizer, in hundredths
CosineWithIdf(a, b, texts, idf) ==
    LET cols == SortedTerms(texts)
        W(d, k) == Count(cols[k], TermsOf(texts[d])) * idf[k]
        Dot(x, y) == SumSeq([k \in 1..Len(cols) |-> W(x, k) * W(y, k)])
        na == ISqrtFrom(Dot(a, a), 0)
        nb == ISqrtFrom(Dot(b, b), 0)
    IN IF na = 0 \/ nb = 0 THEN 0
       ELSE (100 * Dot(a, b)) \div (na * nb)

\* lines 62-84, up to the point where fit_transform has learned vocabulary_
\* and counted the texts
thread_count(t) ==
    LET c == threads[t]
        texts == AllTexts(c.query, c.candidates)
    IN /\ c.pc = "start"
       /\ IF fit_transform_raises(texts)
          THEN /\ threads' = [threads EXCEPT ![t].pc = "done",
                                ![t].result = Fallback(c.candidates, c.limit)]
               /\ UNCHANGED vectorizer
          ELSE /\ threads' = [threads EXCEPT ![t].pc = "idf"]
               /\ vectorizer' = [vectorizer EXCEPT !.vocabulary = texts]
       /\ UNCHANGED <<db, nextId, last, index, nextUuid, rank, schema, boot, embedded>>

\* fit_transform learns idf_ from the counts of its own texts
thread_fit_idf(t) ==
    LET c == threads[t]
    IN /\ c.pc = "idf"
       /\ threads' = [threads EXCEPT ![t].pc = "transform"]
       /\ vectorizer' = [vectorizer EXCEPT !.idf = AllTexts(c.query, c.candidates)]
       /\ UNCHANGED <<db, nextId, last, index, nextUuid, rank, schema, boot, embedded>>

\* fit_transform weights its own counts by the idf_ now on the vectorizer
\* (ValueError when the lengths differ, caught at line 103); lines 87-101
\* rank the rows
thread_transform(t) ==
    LET c == threads[t]
        texts == AllTexts(c.query, c.candidates)
        objs == SnippetObjects(c.candidates)
        idf == IdfVector(vectorizer.idf)
        results == [i \in 1..Len(objs) |->
                       [snippet |-> objs[i],
                        score |-> CosineWithIdf(Len(texts), i, texts, idf)]]
    IN /\ c.pc = "transform"
       /\ threads' = [threads EXCEPT
                        ![t].pc = "done",
                        ![t].result =
                            IF Len(idf) # Len(SortedTerms(texts))
                            THEN Fallback(c.candidates, c.limit)
                            ELSE SliceTo(SortDesc(results), c.limit)]
       /\ UNCHANGED <<db, nextId, last, index, nextUuid, rank, vectorizer, schema, boot, embedded>>

(***************************************************************************)
(* WeaviateService: the external index holds objects of class CodeSnippet, *)
(* each with the uuid the server gave it.  Every call to the server may    *)
(* fail (network, auth, a rejected request).                               *)
(***************************************************************************)
Digit == <<"0", "1", "2", "3", "4", "5", "6", "7", "8", "9">>

RECURSIVE ToStr(_)
\* str(n) for n >= 0: its decimal digits
ToStr(n) == IF n < 10 THEN <<Digit[n + 1]>> ELSE ToStr(n \div 10) \o <<Digit[(n % 10) + 1]>>

DigitValue(c) == (CHOOSE k \in 1..10 : Digit[k] = c) - 1

RECURSIVE ToInt(_)
\* int(s) for a string of decimal digits
ToInt(s) ==
    IF Len(s) = 1 THEN DigitValue(s[1])
    ELSE 10 * ToInt(SubSeq(s, 1, Len(s) - 1)) + DigitValue(s[Len(s)])

\* the objects a where-filter on snippet_id = str(snippet_id) matches
Matches(snippet_id) == {o \in index : o.snippet_id = ToStr(snippet_id)}

\* data_object.create(data_object, class_name, vector) with no uuid given: the
\* server stores a new object under a fresh uuid
CreatedObject(uuid, snippet_id, embedding, title, language, description) ==
    [uuid |-> uuid, snippet_id |-> ToStr(snippet_id), vector |-> embedding,
     title |-> title, language |-> language, description |-> description]

\* the snippets the migration reads: those with an embedding, in id order
Migrated == SortedIds({i \in DOMAIN db : db[i].embedding # NoneVec})

RECURSIVE StoredBy(_, _, _)
\* the objects created by store_snippet_vector for the ids of the sequence,
\* one call after the other, where the calls for the ids of fail raise
StoredBy(ids, fail, uuid) ==
    IF ids = <<>> THEN {}
    ELSE LET i == Head(ids)
         IN IF i \in fail THEN StoredBy(Tail(ids), fail, uuid)
            ELSE {CreatedObject(uuid, i, db[i].embedding, db[i].title,
                                db[i].language, OrEmpty(db[i].description))}
                   \cup StoredBy(Tail(ids), fail, uuid + 1)

\* migrate_snippets_to_weaviate: store_snippet_vector for every snippet read;
\* the run is interrupted after done snippets (done = all of them: it completes)
migrate_snippets_to_weaviate(done, fail) ==
    LET ids == SubSeq(Migrated, 1, done)
        new == StoredBy(ids, fail, nextUuid)
    IN /\ done <= Len(Migrated)
       /\ fail \subseteq Range(ids)
       /\ nextUuid + Cardinality(new) - 1 <= MaxObjects
       /\ index' = index \cup new
       /\ nextUuid' = nextUuid + Cardinality(new)
       /\ last' = [Outcome("migrate", done, 0, "")
                     EXCEPT !.returned = (fail = {}),
                            !.failed = (fail # {}),
                            !.changed = (new # {})]
       /\ UNCHANGED <<db, nextId, rank, vectorizer, threads, schema, boot, embedded>>

\* delete_snippet_vector: query the objects of the id, then delete each by uuid.
\* The query raises, or answers without "data" (an error answer), or answers
\* with the matching objects; of these the objects of deleted are deleted
\* before a delete call raises (deleted = all of them: none raises).
delete_snippet_vector(snippet_id, query, deleted) ==
    LET found == Matches(snippet_id)
    IN /\ query \in {"raises", "errors", "answers"}
       /\ deleted \subseteq found
       /\ query # "answers" => deleted = {}
       /\ index' = index \ deleted
       /\ last' = [Outcome("delete_snippet_vector", snippet_id, 0, "")
                     EXCEPT !.returned = (query = "answers" /\ deleted = found),
                            !.failed = (query # "answers" \/ deleted # found),
                            !.changed = (deleted # {})]
       /\ UNCHANGED <<db, nextId, nextUuid, rank, vectorizer, threads, schema, boot, embedded>>

\* the minimum certainty of the near-vector query, in hundredths
MinCertainty == 60

Certainties == {MinCertainty, 90}

\* the answers the server can give to the near-vector query: at most limit
\* distinct objects, each with a certainty of at least the minimum, in order
\* of non-increasing certainty
Answers(limit) ==
    {a \in UNION {[1..n -> index \X Certainties] : n \in 0..Min(Max(limit, 0), Cardinality(index))} :
        /\ \A i, j \in DOMAIN a : i < j => a[i][1] # a[j][1]
        /\ \A i, j \in DOMAIN a : i < j => a[i][2] >= a[j][2]}

\* formatted_results of search_similar_snippets
Formatted(a) ==
    [i \in DOMAIN a |->
        [snippet_id |-> a[i][1].snippet_id, title |-> a[i][1].title,
         language |-> a[i][1].language, description |-> a[i][1].description,
         similarity |-> a[i][2]]]

\* search_similar_snippets: the query raises, or answers without "data", or
\* answers with objects
search_similar_snippets(limit, query, a) ==
    /\ query \in {"raises", "errors", "answers"}
    /\ a \in Answers(limit)
    /\ query # "answers" => a = <<>>
    /\ last' = [Outcome("search_similar_snippets", 0, 0, "")
                  EXCEPT !.returned = (a # <<>>),
                         !.hits = Formatted(a),
                         !.failed = (query # "answers")]
    /\ UNCHANGED <<db, nextId, index, nextUuid, rank, vectorizer, threads, schema, boot, embedded>>

(***************************************************************************)
(* POST /search/vector                                                     *)
(***************************************************************************)
\* the hits in the order the index returned them
KeepQueryOrder(results) == results

\* result_snippets.sort(key=lambda x: x.similarity or 0, reverse=True)
SortBySimilarity(results) == SortDesc(results)

\* snippet_ids of line 192
SnippetIds(hits) == [i \in DOMAIN hits |-> ToInt(hits[i].snippet_id)]

\* the rows of db.query(SnippetDB).filter(SnippetDB.id.in_(snippet_ids)).all(),
\* in id order
FetchedIds(hits) == SortedIds({id \in DOMAIN db : id \in Range(SnippetIds(hits))})

\* id_to_similarity of line 196: a later hit of an id replaces an earlier one
IdToSimilarity(hits, id) ==
    LET k == CHOOSE i \in DOMAIN hits :
                 /\ ToInt(hits[i].snippet_id) = id
                 /\ \A j \in DOMAIN hits : ToInt(hits[j].snippet_id) = id => j <= i
    IN hits[k].similarity

\* the route: embed the query (which may raise), ask the index, which raises
\* or answers without "data" or answers with objects, fetch the rows of the
\* hits and sort them by the similarity of their hit
search_snippets_with_weaviate(query, limit, answer, a) ==
    /\ answer \in {"raises", "errors", "answers"}
    /\ a \in Answers(limit)
    /\ answer # "answers" => a = <<>>
    /\ IF create_embedding_raises(query)
       THEN last' = [Outcome("search_vector", 0, 500, "ValueError") EXCEPT !.limit = limit]
       ELSE LET hits == Formatted(a)
                ids == FetchedIds(hits)
                result_snippets ==
                    [k \in 1..Len(ids) |->
                        [snippet |-> SnippetObject(ids[k], db[ids[k]]),
                         score |-> IdToSimilarity(hits, ids[k])]]
            IN last' = [Outcome("search_vector", 0, 200, "")
                          EXCEPT !.limit = limit,
                                 !.hits = hits,
                                 !.failed = (answer # "answers"),
                                 !.response =
                                     IF hits = <<>> THEN NoResponse
                                     ELSE Response(SortBySimilarity(result_snippets))]
    /\ UNCHANGED <<db, nextId, index, nextUuid, rank, vectorizer, threads, schema, boot,
                   embedded>>

(***************************************************************************)
(* Calls of create_snippet_embedding and of search_snippets on the one     *)
(* search_service, in any order.                                           *)
(***************************************************************************)
\* the (title, description, code, language) tuples embedded; the last one
\* has no token the vectorizer keeps
EmbedInputs ==
    {[title |-> <<"sort">>, description |-> <<"list">>, code |-> <<"sort">>,
      language |-> <<"py">>],
     [title |-> <<"the">>, description |-> None, code |-> <<"the">>,
      language |-> <<"the">>],
     [title |-> <<"the">>, description |-> <<>>, code |-> <<"the">>,
      language |-> <<"the">>]}

\* the candidate sequences of the searches made between the embedding
\* calls: one snippet, or two
RefitCandidates ==
    {<<CandidatePair(1, t)>> : t \in RankTexts}
        \cup {<<CandidatePair(1, t), CandidatePair(2, u)>> : t \in RankTexts, u \in RankTexts}

\* nothing embedded yet
NoneEmbedded == [p \in EmbedInputs |-> {}]

\* one call of create_snippet_embedding: what it returned (the vector, or
\* that it raised) and whether self.vectorizer had been fit by then
call_create_snippet_embedding(p) ==
    /\ embedded' = [embedded EXCEPT ![p] = @ \cup
          {[raised |-> create_snippet_embedding_raises(
                           p.title, p.description, p.code, p.language),
            vector |-> IF create_snippet_embedding_raises(
                              p.title, p.description, p.code, p.language)
                       THEN <<>>
                       ELSE create_snippet_embedding(
                                p.title, p.description, p.code, p.language),
            refit |-> vectorizer.vocabulary # <<>>]}]
    /\ UNCHANGED <<db, nextId, last, index, nextUuid, rank, vectorizer, threads,
                   schema, boot>>

\* one more call of search_snippets, for what it leaves on the service
refit_by_search_snippets(query, S) ==
    /\ vectorizer' = AfterSearch(vectorizer, query, S)
    /\ UNCHANGED <<db, nextId, last, index, nextUuid, rank, threads, schema, boot,
                   embedded>>

(***************************************************************************)
(* WeaviateService._create_schema: check (schema.get) then create          *)
(* (create_class), run by every construction of the adapter.  The server   *)
(* keeps class names unique and rejects a create_class for a name it has.  *)
(***************************************************************************)
\* adapters constructed against the one index
MaxRuns == 3

\* the schema dict of lines 37-61: class, vectorizer and property names
CodeSnippetClass ==
    [class |-> "CodeSnippet", vectorizer |-> "none",
     properties |-> {"snippet_id", "title", "language", "description"}]

\* a run that has not started; message is what the run prints when it ends
NewRun == [pc |-> "check", rejected |-> FALSE, raised |-> FALSE, message |-> ""]

\* except Exception of lines 75-76: prints the error, raises nothing
Excepted(run, rejected) ==
    [run EXCEPT !.pc = "done", !.rejected = rejected, !.raised = FALSE,
                !.message = "Error creating Weaviate schema"]

\* lines 66-69 and 71-72: schema.get, answered or failing
schema_get(r, answer) ==
    /\ boot[r].pc = "check"
    /\ boot' = [boot EXCEPT ![r] =
                  IF answer = "raises" THEN Excepted(boot[r], FALSE)
                  ELSE IF "CodeSnippet" \in {cls.class : cls \in schema}
                  THEN [boot[r] EXCEPT !.pc = "done",
                                       !.message = "Weaviate schema already exists"]
                  ELSE [boot[r] EXCEPT !.pc = "create"]]
    /\ UNCHANGED <<db, nextId, last, index, nextUuid, rank, vectorizer, threads, schema, embedded>>

\* lines 70-71: create_class, failing, rejected by the server for a class
\* it already has, or carried out
create_class(r, answer) ==
    /\ boot[r].pc = "create"
    /\ IF answer = "raises"
       THEN /\ boot' = [boot EXCEPT ![r] = Excepted(boot[r], FALSE)]
            /\ UNCHANGED schema
       ELSE IF "CodeSnippet" \in {cls.class : cls \in schema}
       THEN /\ boot' = [boot EXCEPT ![r] = Excepted(boot[r], TRUE)]
            /\ UNCHANGED schema
       ELSE /\ boot' = [boot EXCEPT ![r].pc = "done",
                          ![r].message = "Created Weaviate schema for CodeSnippet"]
            /\ schema' = schema \cup {CodeSnippetClass}
    /\ UNCHANGED <<db, nextId, last, index, nextUuid, rank, vectorizer, threads, embedded>>

NoRank ==
    [query |-> <<>>, candidates |-> <<>>, limit |-> 0, called |-> FALSE,
     raised |-> FALSE, result |-> <<>>]

Init ==
    /\ db = <<>>
    /\ nextId = 1
    /\ last = Outcome("none", 0, 0, "")
    /\ index = {}
    /\ nextUuid = 1
    /\ rank = NoRank
    /\ vectorizer = NewVectorizer
    /\ threads = <<>>
    /\ schema = {}
    /\ boot = <<>>
    /\ embedded = NoneEmbedded

Next ==
    \/ \E p \in CreatePayloads : create_snippet(p)
    \/ \E id \in 1..MaxId, F \in UpdateFieldSets :
         \E u \in [F -> UNION {UpdateValues(f) : f \in F}] :
            /\ \A f \in F : u[f] \in UpdateValues(f)
            /\ update_snippet(id, u)
    \/ \E id \in 1..MaxId : delete_snippet(id)
    \/ \E query \in Queries, limit \in Limits : search_snippets_route(query, limit)

Spec == Init /\ [][Next]_vars

\* the snippets created and the edits made while the index is in use
IndexPayloads ==
    {[title |-> <<"the">>, description |-> <<"list">>, code |-> <<"sort">>,
      language |-> <<"py">>, tags |-> <<>>]}

IndexUpdates == {[f \in {"title"} |-> <<"sort">>]}

NextIndex ==
    \/ \E p \in IndexPayloads : create_snippet(p)
    \/ \E id \in 1..MaxId, u \in IndexUpdates : update_snippet(id, u)
    \/ \E id \in 1..MaxId : delete_snippet(id)
    \/ \E done \in 0..MaxId, fail \in SUBSET (1..MaxId) :
         migrate_snippets_to_weaviate(done, fail)
    \/ \E id \in 1..(MaxId + 1), query \in {"raises", "errors", "answers"},
          deleted \in SUBSET index :
         delete_snippet_vector(id, query, deleted)
    \/ \E limit \in Limits, query \in {"raises", "errors", "answers"} :
         \E a \in Answers(limit) : search_similar_snippets(limit, query, a)

\* the edits of the snippet table alone: every single-field update, where a
\* tags-only update sets the tags to the empty list
CrudUpdateValues(f) == IF f = "tags" THEN {<<>>} ELSE UpdateValues(f)

NextCrud ==
    \/ \E p \in CreatePayloads : create_snippet(p)
    \/ \E id \in 1..MaxId, f \in ContentFields \cup {"tags"} :
         \E v \in CrudUpdateValues(f) : update_snippet(id, [g \in {f} |-> v])
    \/ \E id \in 1..MaxId : delete_snippet(id)

SpecCrud == Init /\ [][NextCrud]_vars

SpecIndex == Init /\ [][NextIndex]_vars

\* a query with a token the vectorizer keeps, and one without
VectorQueries == {<<"sort">>, <<"the">>}

\* the snippet table and the index drift apart by creations, deletions and
\* complete runs of the migration, then one /search/vector request is made,
\* with which the behaviour ends
NextVector ==
    \/ /\ last.op # "search_vector"
       /\ \E p \in IndexPayloads : create_snippet(p)
    \/ /\ last.op # "search_vector"
       /\ \E id \in 1..MaxId : delete_snippet(id)
    \/ /\ last.op # "search_vector"
       /\ migrate_snippets_to_weaviate(Len(Migrated), {})
    \/ /\ last.op # "search_vector"
       /\ \E query \in VectorQueries, limit \in Limits,
             answer \in {"raises", "errors", "answers"} :
            \E a \in (IF answer = "answers" /\ ~create_embedding_raises(query)
                      THEN Answers(limit) ELSE {<<>>}) :
               search_snippets_with_weaviate(query, limit, answer, a)

SpecVector == Init /\ [][NextVector]_vars

\* the arguments of a direct call are drawn from the bounded sets
InitRank ==
    /\ db = <<>>
    /\ nextId = 1
    /\ last = Outcome("none", 0, 0, "")
    /\ index = {}
    /\ nextUuid = 1
    /\ vectorizer = NewVectorizer
    /\ rank \in [query : Queries, candidates : CandidateSeqs, limit : Limits,
                 called : {FALSE}, raised : {FALSE}, result : {<<>>}]
    /\ threads = <<>>
    /\ schema = {}
    /\ boot = <<>>
    /\ embedded = NoneEmbedded

NextRank == call_search_snippets

SpecRank == InitRank /\ [][NextRank]_vars

\* the concurrent calls start together, each on arguments of its own
InitThreads ==
    /\ db = <<>>
    /\ nextId = 1
    /\ last = Outcome("none", 0, 0, "")
    /\ index = {}
    /\ nextUuid = 1
    /\ vectorizer = NewVectorizer
    /\ rank = NoRank
    /\ threads \in [1..MaxThreads -> ThreadCalls]
    /\ schema = {}
    /\ boot = <<>>
    /\ embedded = NoneEmbedded

NextThreads ==
    \/ \E t \in 1..MaxThreads : thread_count(t)
    \/ \E t \in 1..MaxThreads : thread_fit_idf(t)
    \/ \E t \in 1..MaxThreads : thread_transform(t)

SpecThreads == InitThreads /\ [][NextThreads]_vars

\* the adapters start against an index that has the class or not
InitBoot ==
    /\ db = <<>>
    /\ nextId = 1
    /\ last = Outcome("none", 0, 0, "")
    /\ index = {}
    /\ nextUuid = 1
    /\ rank = NoRank
    /\ vectorizer = NewVectorizer
    /\ threads = <<>>
    /\ schema \in {{}, {CodeSnippetClass}}
    /\ boot = [r \in 1..MaxRuns |-> NewRun]
    /\ embedded = NoneEmbedded

NextBoot ==
    \/ \E r \in 1..MaxRuns, answer \in {"answers", "raises"} : schema_get(r, answer)
    \/ \E r \in 1..MaxRuns, answer \in {"answers", "raises"} : create_class(r, answer)

SpecBoot == InitBoot /\ [][NextBoot]_vars

\* embedding calls and searches on the service, in any order
NextEmbed ==
    \/ \E p \in EmbedInputs : call_create_snippet_embedding(p)
    \/ \E query \in Queries, S \in RefitCandidates :
         refit_by_search_snippets(query, S)

SpecEmbed == Init /\ [][NextEmbed]_vars

(***************************************************************************)
(* The claims.                                                             *)
(***************************************************************************)

\* C1: the external index holds no entry whose snippet_id is not the id of a
\* snippet currently in the database (checked under SpecIndex).
NoOrphanEntries == \A o \in index : ToInt(o.snippet_id) \in DOMAIN db

\* C2: the index holds at most one entry per snippet id, and after a migration
\* that ran to completion with every store succeeding, the one entry of each
\* migrated snippet carries the vector and metadata of that last store
\* (checked under SpecIndex).
UpsertIdempotent ==
    /\ \A o1, o2 \in index : o1.snippet_id = o2.snippet_id => o1 = o2
    /\ (last.op = "migrate" /\ last.returned /\ last.id = Len(Migrated)) =>
          \A i \in Range(Migrated) : \E o \in index :
              /\ Matches(i) = {o}
              /\ o.vector = db[i].embedding
              /\ o.title = db[i].title
              /\ o.language = db[i].language
              /\ o.description = OrEmpty(db[i].description)

\* C3: a /search request over a non-empty table is answered, and every snippet
\* of the answer scores at least the threshold of the ranker call that
\* produced it.
SearchAppliesThreshold ==
    (last.op = "search" /\ DOMAIN db # {}) =>
        /\ last.status = 200
        /\ last.calls # <<>>
        /\ \A i \in 1..Len(last.response.snippets) :
              last.response.snippets[i][2] >= last.calls[Len(last.calls)]

\* C4: a /search request over a non-empty table enters the ranker first with
\* threshold 0.30, a second time with 0.20 exactly when the first result is
\* empty and the pool is not, never a third time, and then returns.
FallbackRetriesOnce ==
    (last.op = "search" /\ DOMAIN db # {}) =>
        /\ last.calls \in {<<PrimaryThreshold>>, <<PrimaryThreshold, FallbackThreshold>>}
        /\ last.status = 200
        /\ Len(last.calls) = 2 => Len(Pool(db)) > 0
        /\ (Len(last.calls) = 1 /\ Len(Pool(db)) > 0) => last.response.snippets # <<>>

\* the snippets of a candidate sequence and of a result, and how often one occurs
Occurrences(x, s) == Cardinality({i \in 1..Len(s) : s[i].snippet = x})

\* C5: search_snippets returns at most limit pairs (none for a limit below
\* one), every returned snippet is an element of the candidate sequence, none
\* is returned more often than it occurs there, and the result is empty for an
\* empty candidate sequence (checked under SpecRank).
ResultWithinLimitAndCandidates ==
    rank.called =>
        /\ Len(rank.result) <= Max(rank.limit, 0)
        /\ \A i \in 1..Len(rank.result) :
              Occurrences(rank.result[i].snippet, rank.result)
                 <= Occurrences(rank.result[i].snippet, rank.candidates)
        /\ rank.candidates = <<>> => rank.result = <<>>

\* C6: the result of search_snippets is ordered by non-increasing score, and
\* two results of equal score appear in the order of their candidates in the
\* input (checked under SpecRank).
SortedDescendingStable ==
    rank.called =>
        \A i, j \in 1..Len(rank.result) : i < j =>
            /\ rank.result[i].score >= rank.result[j].score
            /\ rank.result[i].score = rank.result[j].score =>
                  \E p, q \in 1..Len(rank.candidates) :
                      /\ p < q
                      /\ rank.candidates[p].snippet = rank.result[i].snippet
                      /\ rank.candidates[q].snippet = rank.result[j].snippet

\* C6 witness: a call on the normal path whose result holds a tie and a pair
\* the sort had to swap.
SortedDescendingStableWitness ==
    /\ rank.called
    /\ ~rank.raised
    /\ \E i, j \in 1..Len(rank.result) :
          /\ i < j
          /\ rank.result[i].score = rank.result[j].score
          /\ rank.result[i].score > 0
    /\ \E i, j \in 1..Len(rank.result) :
          /\ i < j
          /\ rank.result[i].score > rank.result[j].score
          /\ rank.result[i].snippet.id > rank.result[j].snippet.id

\* C7: for every limit <= 0, search_snippets returns an empty result (checked
\* under SpecRank).
NonPositiveLimitEmpty == (rank.called /\ rank.limit <= 0) => rank.result = <<>>

\* C8: no create, update or search request fails with the ValueError of a
\* vectorization failure.
VectorizationNeverRaises ==
    last.op \in {"create_snippet", "update_snippet", "search"} => last.error # "ValueError"

\* C9: an adapter operation whose call to the index failed returns False or an
\* empty list, delete_snippet_vector returns False for an id absent from the
\* index, and a failed search or a failed or absent-id delete leaves the index
\* unchanged (checked under SpecIndex).
AdapterFailuresContained ==
    /\ (last.op = "search_similar_snippets" /\ last.failed) =>
          last.hits = <<>> /\ ~last.changed
    /\ (last.op = "delete_snippet_vector" /\ last.failed) =>
          ~last.returned /\ ~last.changed
    /\ (last.op = "delete_snippet_vector" /\ ~last.changed /\ Matches(last.id) = {}) =>
          ~last.returned
    /\ (last.op = "migrate" /\ last.failed) => ~last.returned

\* C10: the embedding stored for each snippet is create_snippet_embedding of
\* its current title, description, language and code (checked under SpecCrud).
StoredEmbeddingCurrent ==
    \A i \in DOMAIN db :
        /\ ~create_snippet_embedding_raises(
               db[i].title, OrEmpty(db[i].description), db[i].code, db[i].language)
        /\ db[i].embedding = create_snippet_embedding(
               db[i].title, OrEmpty(db[i].description), db[i].code, db[i].language)

\* C10 witness: an update that set the language of a snippet went through and
\* recreated its embedding, with a second snippet in the table.
StoredEmbeddingCurrentWitness ==
    /\ last.op = "update_snippet"
    /\ last.status = 200
    /\ last.recomputed
    /\ last.id \in DOMAIN db
    /\ db[last.id].language = <<"py">>
    /\ db[last.id].title = <<"the">>
    /\ db[last.id].code = <<"the">>
    /\ db[last.id].description = None
    /\ Cardinality(DOMAIN db) = 2

\* C11: the result of a search_snippets call does not depend on another call
\* running at the same time: every finished call returns what the same call
\* returns when it runs alone (checked under SpecThreads).
SearchIsolated ==
    \A t \in DOMAIN threads :
        threads[t].pc = "done" =>
            threads[t].result =
                search_snippets(threads[t].query, threads[t].candidates, threads[t].limit)

\* C12: a _create_schema run whose create_class is rejected because the class
\* already exists ends as a success: it raises nothing and reports the schema
\* as created or existing, and the index has exactly the one CodeSnippet
\* class (checked under SpecBoot).
RejectedCreateIsSuccess ==
    \A r \in DOMAIN boot :
        (boot[r].pc = "done" /\ boot[r].rejected) =>
            /\ ~boot[r].raised
            /\ boot[r].message \in {"Created Weaviate schema for CodeSnippet",
                                    "Weaviate schema already exists"}
            /\ schema = {CodeSnippetClass}

\* C13: a candidate whose stored vector is None is left out of the ranking:
\* no snippet handed over in a (snippet, None) pair is in the result of
\* search_snippets called with a positive limit (checked under SpecRank).
NullVectorExcluded ==
    (rank.called /\ rank.limit > 0) =>
        \A i \in 1..Len(rank.candidates) :
            (Truthy(rank.candidates[i].snippet) /\ rank.candidates[i].embedding = NoneVec) =>
                \A k \in 1..Len(rank.result) :
                    rank.result[k].snippet # rank.candidates[i].snippet

\* C14: every call of create_snippet_embedding with the same (title,
\* description, code, language) has the same outcome, the same vector or the
\* same error, whatever calls of search_snippets and other embedding calls
\* were made on search_service before it (checked under SpecEmbed).
EmbeddingDeterministic ==
    \A p \in DOMAIN embedded :
        \A a \in embedded[p], b \in embedded[p] :
            a.raised = b.raised /\ a.vector = b.vector

\* an input was embedded before the first fit of self.vectorizer and again
\* after a search had refit it, and got a vector both times
EmbeddingDeterministicWitness ==
    \E p \in DOMAIN embedded :
        \E a \in embedded[p], b \in embedded[p] :
            ~a.refit /\ b.refit /\ ~a.raised /\ ~b.raised /\ Len(a.vector) > 0

\* C15: whatever the database and the index hold, a /search/vector response
\* has only snippets that are in the database, each at most once, in order
\* of non-increasing similarity, with total_count the number of snippets
\* returned and at most the requested limit (none for a limit that is not
\* positive) (checked under SpecVector).
VectorResponseSound ==
    (last.op = "search_vector" /\ last.status = 200) =>
        LET r == last.response.snippets
        IN /\ \A k \in 1..Len(r) : r[k][1] \in DOMAIN db
           /\ \A j, k \in 1..Len(r) : j < k => r[j][1] # r[k][1]
           /\ \A j, k \in 1..Len(r) : j < k => r[j][2] >= r[k][2]
           /\ last.response.total_count = Len(r)
           /\ last.response.total_count <= Max(last.limit, 0)

\* the index answered with two entries of one snippet and an entry of a
\* deleted snippet, and the response has the one snippet
VectorResponseSoundWitness ==
    /\ last.op = "search_vector"
    /\ last.status = 200
    /\ \E i, j \in DOMAIN last.hits :
          i < j /\ last.hits[i].snippet_id = last.hits[j].snippet_id
    /\ \E i \in DOMAIN last.hits : ToInt(last.hits[i].snippet_id) \notin DOMAIN db
    /\ Len(last.response.snippets) = 1

====
